---- MODULE Spec2Model ----
(***************************************************************************)
(* Model of the scan action (src/index.js): input resolution, provisioning  *)
(* of the govulners executable through the tool cache, the scanner          *)
(* invocation and the translation of its exit code into warnings/failure.   *)
(*                                                                          *)
(* Strings are sequences: user inputs are sequences of one-character        *)
(* strings (so that toLowerCase and === are computed character by           *)
(* character), string literals that are only concatenated or reported are   *)
(* kept as one fragment.  "" is the empty sequence, + is \o.                *)
(*                                                                          *)
(* Every action is one synchronous segment of the code, from one await to   *)
(* the next; the order of the effects inside a segment is kept in `events`. *)
(* core.debug lines are not recorded.                                       *)
(***************************************************************************)
EXTENDS Integers, Sequences, FiniteSets, TLC

VARIABLES
  entry,      \* core.getInput("run") dispatch, or a direct call of runScan
  inputs,     \* what core.getInput returns for the inputs the code reads
  req,        \* the arguments runScan was called with
  scanCalled, \* runScan has been entered
  flags,      \* failBuild / onlyFixed / addCpesIfNone after lines 139-141
  env,        \* the child environment built by runScan (without process.env)
  cmdArgs,    \* argv of the scanner
  pc,         \* the await the flow is suspended at
  events,     \* the effects so far, in program order
  disk,       \* files written by fs.writeFileSync
  out,        \* runScan's `out` object
  returned,   \* runScan has returned `out`
  outputs,    \* core.setOutput
  rejected,   \* the error an exported function's promise rejected with
  scan,       \* exit code and captured stdout of the scanner
  toolCache,  \* versions present in the tool cache
  cur,        \* the installGovulners call in progress
  calls       \* the finished installGovulners calls, in order

vars == <<entry, inputs, req, scanCalled, flags, env, cmdArgs, pc, events, disk,
          out, returned, outputs, rejected, scan, toolCache, cur, calls>>

----------------------------------------------------------------------------
(* Bounds *)

MaxExit == 3
MaxNegExit == 1
MaxCalls == 3

ExitCodes == (0 - MaxNegExit) .. MaxExit

----------------------------------------------------------------------------
(* Strings *)

Empty == <<>>

Truthy(s) == s # <<>>

LowerOf ==
  [c \in {"A","B","C","D","E","F","G","H","I","J","K","L","M",
          "N","O","P","Q","R","S","T","U","V","W","X","Y","Z"} |->
     CASE c = "A" -> "a" [] c = "B" -> "b" [] c = "C" -> "c" [] c = "D" -> "d"
       [] c = "E" -> "e" [] c = "F" -> "f" [] c = "G" -> "g" [] c = "H" -> "h"
       [] c = "I" -> "i" [] c = "J" -> "j" [] c = "K" -> "k" [] c = "L" -> "l"
       [] c = "M" -> "m" [] c = "N" -> "n" [] c = "O" -> "o" [] c = "P" -> "p"
       [] c = "Q" -> "q" [] c = "R" -> "r" [] c = "S" -> "s" [] c = "T" -> "t"
       [] c = "U" -> "u" [] c = "V" -> "v" [] c = "W" -> "w" [] c = "X" -> "x"
       [] c = "Y" -> "y" [] c = "Z" -> "z"]

toLowerCase(s) ==
  [i \in 1..Len(s) |-> IF s[i] \in DOMAIN LowerOf THEN LowerOf[s[i]] ELSE s[i]]

S_true   == <<"t","r","u","e">>
S_false  == <<"f","a","l","s","e">>
S_sarif  == <<"s","a","r","i","f">>
S_json   == <<"j","s","o","n">>
S_table  == <<"t","a","b","l","e">>
S_medium == <<"m","e","d","i","u","m">>

govulnersBinary == <<"govulners">>

SEVERITY_LIST ==
  << <<"n","e","g","l","i","g","i","b","l","e">>, <<"l","o","w">>, S_medium,
     <<"h","i","g","h">>, <<"c","r","i","t","i","c","a","l">> >>

FORMAT_LIST == << S_sarif, S_json, S_table >>

SARIF_FILE  == <<"./results.sarif">>
REPORT_FILE == <<"./results.json">>

(* Array.prototype.some with `item === value.toLowerCase()` *)
someEquals(list, value) == \E i \in 1..Len(list) : list[i] = toLowerCase(value)

----------------------------------------------------------------------------
(* Messages *)

MsgExclusive == <<"The following options are mutually exclusive: image, path, sbom">>

MsgInvalidSeverity(severityCutoff) ==
  <<"Invalid severity-cutoff value is set to ">> \o severityCutoff
    \o <<" - please ensure you are choosing either negligible, low, medium, high, or critical">>

MsgInvalidFormat(outputFormat) ==
  <<"Invalid output-format value is set to ">> \o outputFormat
    \o <<" - please ensure you are choosing either json or sarif">>

MsgCredentials == <<"WARNING: registry-username and registry-password must be specified together">>

MsgToolProblem == <<"govulners had a non-zero exit status when running">>

MsgSeverity(severityCutoff) ==
  <<"Failed minimum severity level. Found vulnerabilities with level '">>
    \o severityCutoff \o <<"' or higher">>

Ev(op, arg) == [op |-> op, arg |-> arg]

----------------------------------------------------------------------------
(* Input Resolver *)

RECURSIVE multipleDefinedFrom(_, _, _)
multipleDefinedFrom(args, i, defined) ==
  IF i > Len(args) THEN FALSE
  ELSE IF defined /\ Truthy(args[i]) THEN TRUE
  ELSE multipleDefinedFrom(args, i + 1, defined \/ Truthy(args[i]))

multipleDefinedAll(args) == \A i \in 1..Len(args) : Truthy(args[i])

multipleDefined(args) == multipleDefinedFrom(args, 1, FALSE)

(* ok = FALSE: the function threw, val is the error message *)
sourceInput(image, path, sbom) ==
  IF multipleDefined(<<image, path, sbom>>) THEN [ok |-> FALSE, val |-> MsgExclusive]
  ELSE IF Truthy(image) THEN [ok |-> TRUE, val |-> image]
  ELSE IF Truthy(sbom) THEN [ok |-> TRUE, val |-> <<"sbom:">> \o sbom]
  ELSE [ok |-> TRUE, val |-> <<"dir:">> \o (IF ~Truthy(path) THEN <<".">> ELSE path)]

(* core.getInput(name) || fallback *)
OrDefault(s, fallback) == IF Truthy(s) THEN s ELSE fallback

----------------------------------------------------------------------------
(* Scan Executor: the synchronous prologue of runScan (lines 111-166) *)

Base_env == "GOVULNERS_CHECK_FOR_APP_UPDATE" :> S_false

registryEnv(registryUser, registryPass) ==
  IF Truthy(registryUser) \/ Truthy(registryPass)
  THEN Base_env @@ ("GOVULNERS_REGISTRY_AUTH_USERNAME" :> registryUser)
                @@ ("GOVULNERS_REGISTRY_AUTH_PASSWORD" :> registryPass)
  ELSE Base_env

registryWarning(registryUser, registryPass) ==
  IF (Truthy(registryUser) \/ Truthy(registryPass))
     /\ (~Truthy(registryUser) \/ ~Truthy(registryPass))
  THEN << Ev("warning", MsgCredentials) >>
  ELSE << >>

isTrueExact(s) == s = S_true

(* s.toLowerCase() === "true" *)
isTrue(s) == toLowerCase(s) = S_true

initialArgs(debug, outputFormat) ==
  (IF debug THEN << <<"-vv">> >> ELSE << >>) \o << <<"-o">>, outputFormat >>

validSeverityExact(severityCutoff) ==
  \E i \in 1..Len(SEVERITY_LIST) : SEVERITY_LIST[i] = severityCutoff

validSeverity(severityCutoff) == someEquals(SEVERITY_LIST, severityCutoff)

validFormat(outputFormat) == someEquals(FORMAT_LIST, outputFormat)

(* the error runScan throws at lines 145-166, Empty when it throws none *)
configError(severityCutoff, outputFormat) ==
  IF ~validSeverity(severityCutoff) THEN MsgInvalidSeverity(severityCutoff)
  ELSE IF ~validFormat(outputFormat) THEN MsgInvalidFormat(outputFormat)
  ELSE Empty

(* lines 183-193 *)
scanArgs(args, r, f) ==
  args
    \o (IF r.severityCutoff # Empty
        THEN << <<"--fail-on">>, toLowerCase(r.severityCutoff) >> ELSE << >>)
    \o (IF f.onlyFixed = TRUE THEN << <<"--only-fixed">> >> ELSE << >>)
    \o (IF f.addCpesIfNone = TRUE THEN << <<"--add-cpes-if-none">> >> ELSE << >>)
    \o << r.source >>

----------------------------------------------------------------------------
(* Result Interpreter (lines 230-265) *)

(* the switch on outputFormat: key = "" is the default branch *)
reportFile(outputFormat) ==
  IF outputFormat = S_sarif THEN [key |-> "sarif", file |-> SARIF_FILE]
  ELSE IF outputFormat = S_json THEN [key |-> "json", file |-> REPORT_FILE]
  ELSE [key |-> "", file |-> Empty]

reportEvents(outputFormat, cmdOutput) ==
  IF reportFile(outputFormat).key # ""
  THEN << Ev("writeFile", reportFile(outputFormat).file) >>
  ELSE << Ev("info", cmdOutput) >>

reportDisk(d, outputFormat, cmdOutput) ==
  IF reportFile(outputFormat).key # ""
  THEN (reportFile(outputFormat).file :> cmdOutput) @@ d
  ELSE d

reportOut(outputFormat) ==
  IF reportFile(outputFormat).key # ""
  THEN reportFile(outputFormat).key :> reportFile(outputFormat).file
  ELSE << >>

exitPolicyFromZero(exitCode, severityCutoff, failBuild) ==
  IF exitCode >= 0
  THEN IF ~Truthy(severityCutoff) THEN << Ev("warning", MsgToolProblem) >>
       ELSE IF failBuild = TRUE THEN << Ev("setFailed", MsgSeverity(severityCutoff)) >>
       ELSE << Ev("warning", MsgSeverity(severityCutoff)) >>
  ELSE << >>

exitPolicy(exitCode, severityCutoff, failBuild) ==
  IF exitCode > 0
  THEN IF ~Truthy(severityCutoff) THEN << Ev("warning", MsgToolProblem) >>
       ELSE IF failBuild = TRUE THEN << Ev("setFailed", MsgSeverity(severityCutoff)) >>
       ELSE << Ev("warning", MsgSeverity(severityCutoff)) >>
  ELSE << >>

interpretPolicyFirst(r, f, exitCode, cmdOutput) ==
  exitPolicy(exitCode, r.severityCutoff, f.failBuild)
    \o reportEvents(r.outputFormat, cmdOutput)

(* the effects of lines 230-265, in order: the report, then the exit-code policy *)
interpret(r, f, exitCode, cmdOutput) ==
  reportEvents(r.outputFormat, cmdOutput)
    \o exitPolicy(exitCode, r.severityCutoff, f.failBuild)

----------------------------------------------------------------------------
(* Inputs the model draws from *)

(* the default version of ./GovulnersVersion, an opaque string here *)
GOVULNERS_VERSION == <<"GOVULNERS_VERSION">>
OtherVersion == <<"v","1">>
Versions == {GOVULNERS_VERSION, OtherVersion}

Images      == {Empty, <<"i","m","g">>}
Paths       == {Empty, <<"s","r","c">>}
Sboms       == {Empty, <<"b","o","m">>}
FailBuilds  == {Empty, <<"T","r","u","e">>, S_false}
Formats     == {Empty, <<"S","A","R","I","F">>, S_json, S_table, <<"x","m","l">>}
Severities  == {Empty, <<"H","i","g","h">>, <<"l","o","w">>, <<"b","a","d">>}
Toggles     == {Empty, S_true}
Users       == {Empty, <<"b","o","b">>}
Passwords   == {Empty, <<"p","w","d">>}
Stdouts     == {Empty, <<"{","x","}">>}
Sources     == {<<"dir:">> \o <<".">>, <<"i","m","g">>}

NoInputs ==
  [image |-> Empty, path |-> Empty, sbom |-> Empty, registryUser |-> Empty,
   registryPass |-> Empty, version |-> Empty, debug |-> FALSE]

NoReq ==
  [source |-> Empty, failBuild |-> Empty, severityCutoff |-> Empty,
   onlyFixed |-> Empty, outputFormat |-> Empty, addCpesIfNone |-> Empty]

NoFlags == [failBuild |-> FALSE, onlyFixed |-> FALSE, addCpesIfNone |-> FALSE]

NoScan == [ran |-> FALSE, exitCode |-> 0, cmdOutput |-> Empty]

NoCall == [active |-> FALSE, version |-> Empty, downloaded |-> FALSE,
           executed |-> FALSE, wrote |-> FALSE]

----------------------------------------------------------------------------
(* Tool Provisioner *)

(* the directory the tool cache keeps (govulners, version) in *)
toolDir(version) == <<"$RUNNER_TOOL_CACHE/govulners/">> \o version

(* cache.find: "" when the version is not cached *)
cacheFind(cache, version) == IF version \in cache THEN toolDir(version) ELSE Empty

installerUrl == <<"https://raw.githubusercontent.com/nextlinux/govulners/main/install.sh">>

(* what cache.downloadTool resolves with *)
installPath == <<"$RUNNER_TEMP/install.sh">>

notFoundAlways(govulnersPath) == TRUE

(* if (!govulnersPath) *)
notFound(govulnersPath) == ~Truthy(govulnersPath)

(* the value installGovulners returns *)
binaryPath(govulnersPath) == govulnersPath \o <<"/">> \o govulnersBinary

RECURSIVE join(_)
join(args) ==
  IF Len(args) = 0 THEN << >>
  ELSE IF Len(args) = 1 THEN args[1]
  ELSE args[1] \o <<" ">> \o join(Tail(args))

finished(c, ok, path) ==
  [version |-> c.version, ok |-> ok, downloaded |-> c.downloaded,
   executed |-> c.executed, wrote |-> c.wrote, path |-> path]

----------------------------------------------------------------------------
(* Continuations shared by the actions.  e, r, f are the entry point, the   *)
(* runScan arguments and the normalised flags of the run; evs the effects   *)
(* so far.                                                                  *)

(* an exception leaves the flow: run() catches it (line 105), the exported  *)
(* functions reject                                                         *)
Throw(e, evs, msg) ==
  /\ pc' = "done"
  /\ events' = IF e = "run" THEN evs \o << Ev("setFailed", msg) >> ELSE evs
  /\ rejected' = IF e = "run" THEN Empty ELSE msg

(* installGovulners resolved with govulnersPath (lines 38-39), then either  *)
(* the download-govulners entry point finishes (lines 280-283) or runScan   *)
(* goes on to start the scanner (lines 171-223)                             *)
Installed(e, r, f, args, evs, c, govulnersPath) ==
  /\ calls' = Append(calls, finished(c, TRUE, binaryPath(govulnersPath)))
  /\ cur' = NoCall
  /\ rejected' = Empty
  /\ IF e = "download-govulners"
     THEN /\ events' = evs \o << Ev("addPath", govulnersPath),
                                 Ev("info", <<"Downloaded Govulners to: ">>
                                              \o binaryPath(govulnersPath)) >>
          /\ outputs' = ("cmd" :> binaryPath(govulnersPath)) @@ outputs
          /\ cmdArgs' = args
          /\ pc' = "done"
     ELSE /\ cmdArgs' = scanArgs(args, r, f)
          /\ events' = evs \o << Ev("addPath", govulnersPath),
                                 Ev("info", <<"Executing: ">> \o govulnersBinary \o <<" ">>
                                              \o join(scanArgs(args, r, f))),
                                 Ev("exec", govulnersBinary \o <<" ">>
                                              \o join(scanArgs(args, r, f))) >>
          /\ outputs' = outputs
          /\ pc' = "await_exec"

(* installGovulners(version), up to its first await (lines 30-35) *)
installGovulners(e, r, f, args, evs, version) ==
  IF notFound(cacheFind(toolCache, version))
  THEN /\ cur' = [NoCall EXCEPT !.active = TRUE, !.version = version]
       /\ events' = evs \o << Ev("downloadTool", installerUrl) >>
       /\ pc' = "await_download"
       /\ cmdArgs' = args
       /\ UNCHANGED <<calls, outputs, rejected>>
  ELSE Installed(e, r, f, args, evs,
                 [NoCall EXCEPT !.active = TRUE, !.version = version],
                 cacheFind(toolCache, version))

(* runScan up to its first await (lines 110-169) *)
runScan(e, r, in, evs) ==
  /\ scanCalled' = TRUE
  /\ req' = r
  /\ env' = registryEnv(in.registryUser, in.registryPass)
  /\ flags' = [failBuild |-> isTrue(r.failBuild), onlyFixed |-> isTrue(r.onlyFixed),
               addCpesIfNone |-> isTrue(r.addCpesIfNone)]
  /\ IF configError(r.severityCutoff, r.outputFormat) # Empty
     THEN /\ Throw(e, evs \o registryWarning(in.registryUser, in.registryPass),
                   configError(r.severityCutoff, r.outputFormat))
          /\ cmdArgs' = initialArgs(in.debug, r.outputFormat)
          /\ UNCHANGED <<cur, calls, outputs>>
     ELSE installGovulners(e, r,
            [failBuild |-> isTrue(r.failBuild), onlyFixed |-> isTrue(r.onlyFixed),
             addCpesIfNone |-> isTrue(r.addCpesIfNone)],
            initialArgs(in.debug, r.outputFormat),
            evs \o registryWarning(in.registryUser, in.registryPass),
            in.version)

----------------------------------------------------------------------------
(* State *)

Init ==
  /\ entry = "none"
  /\ inputs = NoInputs
  /\ req = NoReq
  /\ scanCalled = FALSE
  /\ flags = NoFlags
  /\ env = << >>
  /\ cmdArgs = << >>
  /\ pc = "init"
  /\ events = << >>
  /\ disk = << >>
  /\ out = << >>
  /\ returned = FALSE
  /\ outputs = << >>
  /\ rejected = Empty
  /\ scan = NoScan
  /\ toolCache \in {{}, {GOVULNERS_VERSION}}
  /\ cur = NoCall
  /\ calls = << >>

(* run() up to its first await (lines 83-101) *)
BeginRun ==
  /\ pc = "init"
  /\ \E image \in Images, path \in Paths, sbom \in Sboms, failBuild \in FailBuilds,
        outputFormat \in Formats, severityCutoff \in Severities,
        onlyFixed \in Toggles, addCpesIfNone \in Toggles,
        registryUser \in Users, registryPass \in Passwords,
        version \in {Empty, OtherVersion}, debug \in BOOLEAN :
       LET in == [image |-> image, path |-> path, sbom |-> sbom,
                  registryUser |-> registryUser, registryPass |-> registryPass,
                  version |-> OrDefault(version, GOVULNERS_VERSION), debug |-> debug]
           src == sourceInput(image, path, sbom)
       IN /\ entry' = "run"
          /\ inputs' = in
          /\ IF ~src.ok
             THEN /\ Throw("run", << >>, src.val)
                  /\ UNCHANGED <<req, scanCalled, flags, env, cmdArgs, outputs, cur, calls>>
             ELSE runScan("run",
                    [source |-> src.val,
                     failBuild |-> OrDefault(failBuild, S_true),
                     severityCutoff |-> OrDefault(severityCutoff, S_medium),
                     onlyFixed |-> OrDefault(onlyFixed, S_false),
                     outputFormat |-> OrDefault(outputFormat, S_sarif),
                     addCpesIfNone |-> OrDefault(addCpesIfNone, S_false)],
                    in, << >>)
  /\ UNCHANGED <<disk, out, returned, scan, toolCache>>

(* the exported runScan called with arguments of the caller's choice *)
BeginScan ==
  /\ pc = "init"
  /\ \E source \in Sources, failBuild \in FailBuilds,
        outputFormat \in Formats, severityCutoff \in Severities,
        onlyFixed \in Toggles, addCpesIfNone \in {Empty},
        registryUser \in Users, registryPass \in Passwords,
        version \in {Empty}, debug \in {FALSE} :
       LET in == [NoInputs EXCEPT !.registryUser = registryUser,
                                  !.registryPass = registryPass,
                                  !.version = OrDefault(version, GOVULNERS_VERSION),
                                  !.debug = debug]
       IN /\ entry' = "runScan"
          /\ inputs' = in
          /\ runScan("runScan",
                     [source |-> source, failBuild |-> failBuild,
                      severityCutoff |-> severityCutoff, onlyFixed |-> onlyFixed,
                      outputFormat |-> outputFormat, addCpesIfNone |-> addCpesIfNone],
                     in, << >>)
  /\ UNCHANGED <<disk, out, returned, scan, toolCache>>

(* the download-govulners entry point (lines 279-285) *)
BeginDownload ==
  /\ pc = "init"
  /\ \E version \in {Empty, OtherVersion} :
       /\ entry' = "download-govulners"
       /\ inputs' = [NoInputs EXCEPT !.version = OrDefault(version, GOVULNERS_VERSION)]
       /\ installGovulners("download-govulners", NoReq, NoFlags, << >>, << >>,
                           OrDefault(version, GOVULNERS_VERSION))
  /\ UNCHANGED <<req, scanCalled, flags, env, disk, out, returned, scan, toolCache>>

(* an awaited step of downloadGovulners threw: the call ends without a cache entry *)
StepFailed(msg) ==
  /\ Throw(entry, events, msg)
  /\ calls' = Append(calls, finished(cur, FALSE, Empty))
  /\ cur' = NoCall
  /\ UNCHANGED <<entry, inputs, req, scanCalled, flags, env, cmdArgs, disk, out,
                 returned, outputs, scan, toolCache>>

StepDone(next, evs, c) ==
  /\ pc' = next
  /\ events' = events \o evs
  /\ cur' = c
  /\ UNCHANGED <<entry, inputs, req, scanCalled, flags, env, cmdArgs, disk, out,
                 returned, outputs, rejected, scan, toolCache, calls>>

(* cache.downloadTool settled (line 18), chmod is started (line 20) *)
DownloadDone ==
  /\ pc = "await_download"
  /\ \/ StepDone("await_chmod", << Ev("exec", <<"chmod +x ">> \o installPath) >>,
                 [cur EXCEPT !.downloaded = TRUE])
     \/ StepFailed(<<"download failed">>)

(* chmod settled, the installer is started (lines 22-23) *)
ChmodDone ==
  /\ pc = "await_chmod"
  /\ \/ StepDone("await_installer",
                 << Ev("exec", installPath \o <<" -b ">> \o installPath
                                 \o <<"_govulners ">> \o cur.version) >>,
                 [cur EXCEPT !.executed = TRUE])
     \/ StepFailed(<<"chmod failed">>)

(* the installer settled, cache.cacheFile is started (line 27) *)
InstallerDone ==
  /\ pc = "await_installer"
  /\ \/ StepDone("await_cacheFile",
                 << Ev("cacheFile", installPath \o <<"_govulners/govulners">>) >>, cur)
     \/ StepFailed(<<"installer failed">>)

(* cache.cacheFile settled: the entry is in the cache and installGovulners resolves *)
CacheFileDone ==
  /\ pc = "await_cacheFile"
  /\ \/ /\ toolCache' = toolCache \cup {cur.version}
        /\ Installed(entry, req, flags, cmdArgs, events,
                     [cur EXCEPT !.wrote = TRUE], toolDir(cur.version))
        /\ UNCHANGED <<entry, inputs, req, scanCalled, flags, env, disk, out,
                       returned, scan>>
     \/ StepFailed(<<"cacheFile failed">>)

(* run() publishes the keys of `out` (lines 102-104) *)
publish(e, o) ==
  IF e = "run"
  THEN (IF "sarif" \in DOMAIN o THEN << Ev("setOutput", <<"sarif">>) >> ELSE << >>)
         \o (IF "json" \in DOMAIN o THEN << Ev("setOutput", <<"json">>) >> ELSE << >>)
  ELSE << >>

(* the scanner exited: lines 225-267, and lines 102-104 of run() *)
ExecDone ==
  /\ pc = "await_exec"
  /\ \E exitCode \in ExitCodes, cmdOutput \in Stdouts :
       /\ scan' = [ran |-> TRUE, exitCode |-> exitCode, cmdOutput |-> cmdOutput]
       /\ disk' = reportDisk(disk, req.outputFormat, cmdOutput)
       /\ out' = reportOut(req.outputFormat)
       /\ events' = events \o interpret(req, flags, exitCode, cmdOutput)
                      \o publish(entry, reportOut(req.outputFormat))
       /\ outputs' = IF entry = "run" THEN reportOut(req.outputFormat) ELSE outputs
  /\ returned' = TRUE
  /\ pc' = "done"
  /\ UNCHANGED <<entry, inputs, req, scanCalled, flags, env, cmdArgs, rejected,
                 toolCache, cur, calls>>

(* the scanner could not be started: exec.exec rejects *)
ExecFailed ==
  /\ pc = "await_exec"
  /\ Throw(entry, events, <<"spawn failed">>)
  /\ UNCHANGED <<entry, inputs, req, scanCalled, flags, env, cmdArgs, disk, out,
                 returned, outputs, scan, toolCache, cur, calls>>

Next ==
  \/ BeginRun
  \/ BeginScan
  \/ BeginDownload
  \/ DownloadDone
  \/ ChmodDone
  \/ InstallerDone
  \/ CacheFileDone
  \/ ExecDone
  \/ ExecFailed

Spec == Init /\ [][Next]_vars

(* the action is invoked again on the same host: the tool cache persists *)
Reinvoke ==
  /\ pc = "done"
  /\ Len(calls) < MaxCalls
  /\ pc' = "init"
  /\ entry' = "none"
  /\ inputs' = NoInputs
  /\ events' = << >>
  /\ outputs' = << >>
  /\ rejected' = Empty
  /\ UNCHANGED <<req, scanCalled, flags, env, cmdArgs, disk, out, returned, scan,
                 toolCache, cur, calls>>

NextProvision ==
  \/ BeginDownload
  \/ DownloadDone
  \/ ChmodDone
  \/ InstallerDone
  \/ CacheFileDone
  \/ Reinvoke

SpecProvision == Init /\ [][NextProvision]_vars

----------------------------------------------------------------------------
(* Vocabulary of the properties *)

Has(op, arg) == \E i \in DOMAIN events : events[i] = Ev(op, arg)

HasOp(op) == \E i \in DOMAIN events : events[i].op = op

(* msg contains s as a contiguous part *)
Names(msg, s) ==
  \E i \in 1..(Len(msg) - Len(s) + 1) : SubSeq(msg, i, i + Len(s) - 1) = s

NonEmptySources == {k \in {"image", "path", "sbom"} : inputs[k] # Empty}

AcceptedSeverities ==
  { <<"n","e","g","l","i","g","i","b","l","e">>, <<"l","o","w">>,
    <<"m","e","d","i","u","m">>, <<"h","i","g","h">>,
    <<"c","r","i","t","i","c","a","l">> }

AcceptedFormats == { <<"s","a","r","i","f">>, <<"j","s","o","n">>, <<"t","a","b","l","e">> }

ProcessStarted == \E i \in DOMAIN events : events[i].op \in {"downloadTool", "exec", "cacheFile"}

ConfigMessages ==
  {MsgExclusive, MsgInvalidSeverity(req.severityCutoff), MsgInvalidFormat(req.outputFormat)}

EndedWithConfigError ==
  /\ pc = "done"
  /\ IF entry = "run"
     THEN \E m \in ConfigMessages : events[Len(events)] = Ev("setFailed", m)
     ELSE rejected \in ConfigMessages

ConfigInvalid ==
  \/ entry = "run" /\ Cardinality(NonEmptySources) > 1
  \/ /\ scanCalled
     /\ \/ toLowerCase(req.severityCutoff) \notin AcceptedSeverities
        \/ toLowerCase(req.outputFormat) \notin AcceptedFormats

SeverityMessage ==
  <<"Failed minimum severity level. Found vulnerabilities with level '">>
    \o req.severityCutoff \o <<"' or higher">>

FailBuildSet == toLowerCase(req.failBuild) = <<"t","r","u","e">>

----------------------------------------------------------------------------
(* Properties *)

(* C1: when runScan has completed a scan with exit code > 0 and a valid,    *)
(* non-empty severityCutoff, then failBuild = "true" (any letter case)      *)
(* marks the run failed with a message naming severityCutoff, and any other *)
(* failBuild gives a warning with that message and no failure.              *)
C1_SeverityGate ==
  (returned /\ scan.exitCode > 0 /\ Truthy(req.severityCutoff)
     /\ toLowerCase(req.severityCutoff) \in AcceptedSeverities)
  => /\ Names(SeverityMessage, req.severityCutoff)
     /\ IF FailBuildSet
        THEN Has("setFailed", SeverityMessage)
        ELSE Has("warning", SeverityMessage) /\ ~HasOp("setFailed")

C1_Witness ==
  /\ returned /\ scan.exitCode = 2
  /\ req.severityCutoff = <<"H","i","g","h">>
  /\ req.failBuild = <<"T","r","u","e">>
  /\ Has("setFailed", SeverityMessage)

(* C2: run() resolves the source as the reference does: an error naming     *)
(* image, path and sbom when more than one is non-empty, else image         *)
(* unchanged, else "sbom:" + sbom, else "dir:" + path with "." for "".      *)
C2_SourceResolution ==
  entry = "run"
  => IF Cardinality(NonEmptySources) > 1
     THEN /\ ~scanCalled
          /\ events = << Ev("setFailed",
               <<"The following options are mutually exclusive: image, path, sbom">>) >>
     ELSE /\ scanCalled
          /\ req.source =
               IF inputs.image # Empty THEN inputs.image
               ELSE IF inputs.sbom # Empty THEN <<"sbom:">> \o inputs.sbom
               ELSE <<"dir:">> \o (IF inputs.path = Empty THEN <<".">> ELSE inputs.path)

C2_Witness ==
  /\ entry = "run" /\ scanCalled
  /\ inputs.image = Empty /\ inputs.path = Empty /\ inputs.sbom = Empty
  /\ req.source = <<"dir:", ".">>

(* C3: a run with an invalid configuration ends with the configuration      *)
(* error and starts nothing (no download, no chmod or installer, no cache   *)
(* write, no scanner); the accepted severities and formats, in any letter   *)
(* case, are not rejected.                                                  *)
C3_InvalidConfigStartsNothing ==
  entry \in {"run", "runScan"}
  => IF ConfigInvalid
     THEN EndedWithConfigError /\ ~ProcessStarted /\ ~scan.ran /\ calls = << >>
     ELSE ~EndedWithConfigError

C3_Witness ==
  /\ entry = "run" /\ scanCalled /\ pc = "done"
  /\ req.severityCutoff = <<"b","a","d">>
  /\ ~ProcessStarted

(* C4: for every accepted outputFormat (any letter case): sarif writes the  *)
(* captured output to the SARIF file and returns exactly {sarif}; json      *)
(* writes it to the JSON file and returns exactly {json}; table writes      *)
(* nothing, returns {} and logs the captured text.                          *)
C4_ReportByFormat ==
  returned
  => /\ toLowerCase(req.outputFormat) = <<"s","a","r","i","f">>
          => /\ DOMAIN disk = {SARIF_FILE} /\ disk[SARIF_FILE] = scan.cmdOutput
             /\ DOMAIN out = {"sarif"} /\ out["sarif"] = SARIF_FILE
     /\ toLowerCase(req.outputFormat) = <<"j","s","o","n">>
          => /\ DOMAIN disk = {REPORT_FILE} /\ disk[REPORT_FILE] = scan.cmdOutput
             /\ DOMAIN out = {"json"} /\ out["json"] = REPORT_FILE
     /\ toLowerCase(req.outputFormat) = <<"t","a","b","l","e">>
          => /\ DOMAIN disk = {} /\ DOMAIN out = {}
             /\ Has("info", scan.cmdOutput)

(* the position of the severity failure signal in the effects, 0 when none *)
FailureSignalAt ==
  IF Has("setFailed", SeverityMessage) /\ scan.ran
  THEN CHOOSE i \in DOMAIN events : events[i] = Ev("setFailed", SeverityMessage)
  ELSE 0

Published ==
  /\ returned /\ pc = "done"
  /\ entry = "run"
       => /\ DOMAIN outputs = DOMAIN out
          /\ \A k \in DOMAIN out :
               /\ outputs[k] = out[k]
               /\ \E j \in DOMAIN events : j > FailureSignalAt /\ events[j] = Ev("setOutput", <<k>>)

(* C5 as stated: whenever the severity failure signal is raised, a report   *)
(* file has been written before it, runScan returns and run() publishes     *)
(* every key of the outputs map.                                            *)
C5_ReportFileBeforeFailure ==
  FailureSignalAt > 0
  => /\ \E j \in 1..(FailureSignalAt - 1) : events[j].op = "writeFile"
     /\ DOMAIN disk # {}
     /\ Published

(* C5 amended: whenever the severity failure signal is raised, the report   *)
(* has been emitted before it (written to a file when outputFormat is       *)
(* exactly sarif or json, sent to informational logging and to no file      *)
(* otherwise), runScan returns and run() publishes every key of the map.    *)
C5_ReportBeforeFailure ==
  FailureSignalAt > 0
  => /\ IF req.outputFormat \in {<<"s","a","r","i","f">>, <<"j","s","o","n">>}
        THEN /\ \E j \in 1..(FailureSignalAt - 1) : events[j].op = "writeFile"
             /\ \E file \in DOMAIN disk : disk[file] = scan.cmdOutput
             /\ DOMAIN out # {}
        ELSE /\ \E j \in 1..(FailureSignalAt - 1) : events[j] = Ev("info", scan.cmdOutput)
             /\ DOMAIN disk = {} /\ DOMAIN out = {}
     /\ Published

C5_Witness ==
  /\ FailureSignalAt > 0 /\ entry = "run"
  /\ req.outputFormat = <<"s","a","r","i","f">>
  /\ Has("setOutput", <<"sarif">>)
  /\ disk[SARIF_FILE] = <<"{","x","}">>

(* C6: runScan called with an empty severityCutoff is not stopped by a      *)
(* configuration error, and once its scanner has exited with a code > 0 it  *)
(* has warned about the tool problem and has not marked the run failed.     *)
C6_EmptyCutoffWarns ==
  (scanCalled /\ req.severityCutoff = Empty)
  => /\ ~EndedWithConfigError
     /\ (returned /\ scan.exitCode > 0)
          => Has("warning", MsgToolProblem) /\ ~HasOp("setFailed")

(* C7 as stated: a scanner exit code of 0 leaves no warning and no failure. *)
C7_ZeroExitSilent ==
  (scan.ran /\ scan.exitCode = 0) => ~HasOp("warning") /\ ~HasOp("setFailed")

ExactlyOneCredential == (inputs.registryUser = Empty) # (inputs.registryPass = Empty)

(* C7 amended: a scanner exit code of 0 leaves no failure and no warning of *)
(* the exit-code policy; the only warning there can be is the one about     *)
(* registry credentials, present exactly when one of the two is set.        *)
C7_ZeroExitNoPolicySignal ==
  (scan.ran /\ scan.exitCode = 0)
  => /\ ~HasOp("setFailed")
     /\ \A i \in DOMAIN events : events[i].op = "warning" => events[i].arg = MsgCredentials
     /\ Has("warning", MsgCredentials) <=> ExactlyOneCredential

C7_Witness ==
  /\ scan.ran /\ scan.exitCode = 0 /\ returned
  /\ FailBuildSet /\ req.severityCutoff = <<"l","o","w">>
  /\ ExactlyOneCredential /\ Has("warning", MsgCredentials)

CredentialVars == {"GOVULNERS_REGISTRY_AUTH_USERNAME", "GOVULNERS_REGISTRY_AUTH_PASSWORD"}

(* C8: both credentials set: both are in the child environment and neither  *)
(* is in argv; exactly one set: a warning and neither variable in the child *)
(* environment; none set: neither variable and no warning.                  *)
C8_CredentialsAsPair ==
  scanCalled
  => IF inputs.registryUser # Empty /\ inputs.registryPass # Empty
     THEN /\ CredentialVars \subseteq DOMAIN env
          /\ env["GOVULNERS_REGISTRY_AUTH_USERNAME"] = inputs.registryUser
          /\ env["GOVULNERS_REGISTRY_AUTH_PASSWORD"] = inputs.registryPass
          /\ \A i \in DOMAIN cmdArgs :
               cmdArgs[i] \notin {inputs.registryUser, inputs.registryPass}
     ELSE /\ CredentialVars \cap DOMAIN env = {}
          /\ Has("warning", MsgCredentials) <=> ExactlyOneCredential

(* C9: a negative exit code has the outcome a positive one has: the tool    *)
(* warning for an empty severityCutoff, else the failure when failBuild is  *)
(* set, else the severity warning.                                          *)
C9_NonZeroAlike ==
  (returned /\ scan.exitCode # 0)
  => IF req.severityCutoff = Empty THEN Has("warning", MsgToolProblem)
     ELSE IF FailBuildSet THEN Has("setFailed", SeverityMessage)
     ELSE Has("warning", SeverityMessage)

CallsOf(version) == {i \in DOMAIN calls : calls[i].version = version}

AfterFirstSuccess ==
  \A i, j \in DOMAIN calls :
    (i < j /\ calls[i].version = calls[j].version /\ calls[i].ok)
    => /\ calls[j].ok /\ calls[j].path = calls[i].path
       /\ ~calls[j].downloaded /\ ~calls[j].executed /\ ~calls[j].wrote

(* a call is suspended in downloadGovulners only if none succeeded before it *)
NoWorkInProgressAfterSuccess ==
  cur.active => \A i \in CallsOf(cur.version) : ~calls[i].ok

(* C10 as stated: over the calls for one version, download, installer       *)
(* execution and cache write each happen at most once, and every call after *)
(* the first successful one does none of them and returns the same path.    *)
C10_InstallAtMostOnce ==
  /\ \A version \in Versions :
       /\ Cardinality({i \in CallsOf(version) : calls[i].downloaded})
            + (IF cur.active /\ cur.version = version /\ cur.downloaded THEN 1 ELSE 0) <= 1
       /\ Cardinality({i \in CallsOf(version) : calls[i].executed})
            + (IF cur.active /\ cur.version = version /\ cur.executed THEN 1 ELSE 0) <= 1
       /\ Cardinality({i \in CallsOf(version) : calls[i].wrote}) <= 1
  /\ AfterFirstSuccess
  /\ NoWorkInProgressAfterSuccess

(* C10 amended: over the calls for one version the cache is written at most *)
(* once and at most one call downloads and installs successfully (a call    *)
(* that fails leaves no entry, so the next one downloads again); every call *)
(* after the first successful one downloads and executes nothing and        *)
(* returns the same path.                                                   *)
C10_InstallOnceUntilSuccess ==
  /\ \A version \in Versions :
       /\ Cardinality({i \in CallsOf(version) : calls[i].wrote}) <= 1
       /\ Cardinality({i \in CallsOf(version) : calls[i].ok /\ calls[i].downloaded}) <= 1
       /\ \A i \in CallsOf(version) : calls[i].wrote => version \in toolCache
  /\ AfterFirstSuccess
  /\ NoWorkInProgressAfterSuccess

C10_Witness ==
  /\ Len(calls) = 3
  /\ \A i \in DOMAIN calls : calls[i].version = OtherVersion
  /\ ~calls[1].ok /\ calls[1].downloaded
  /\ calls[2].ok /\ calls[2].wrote
  /\ calls[3].ok /\ ~calls[3].downloaded /\ calls[3].path = calls[2].path

====
